---- MODULE Spec2Model ----
(***************************************************************************)
(* Model of main_app.py, the Streamlit front end of the Video Insight      *)
(* Analyzer.  Streamlit re-executes the whole script, top to bottom, once  *)
(* per browser event; one such execution is a "script run".  Each          *)
(* statement group of the script is one action, taken in program order by  *)
(* the program counter pc.  State that outlives a script run is the        *)
(* process environment, the st.cache_resource cache, st.session_state and  *)
(* the widget state of the text input.                                     *)
(***************************************************************************)
EXTENDS Integers, Sequences, FiniteSets, TLC

VARIABLES
    environ,        \* os.environ, restricted to GEMINI_API_KEY
    dotenv,         \* content of the .env file, restricted to GEMINI_API_KEY
    cache,          \* st.cache_resource entry of get_gemini_client
    session_state,  \* st.session_state of the browser session
    textValue,      \* widget state of key "video_url_input"
    clicked,        \* value st.button returns in this script run
    pc,             \* position of the running script, "idle" between runs
    ended,          \* how the last script run ended
    GEMINI_API_KEY, \* script global
    gemini_client,  \* script global
    video_url,      \* script global
    analysis,       \* script global
    exc,            \* exception raised inside the try block of this run
    status,         \* the st.status container of this run
    rendered,       \* elements on the page, in order of rendering
    runs,           \* number of script runs started in this process
    ctorCalls,      \* number of genai.Client(...) constructor calls
    calls,          \* every process_video_insights invocation so far
    prevAnalysis,   \* analysis object of the previous script run
    prevExc         \* exception of the previous script run

vars == <<environ, dotenv, cache, session_state, textValue, clicked, pc, ended,
          GEMINI_API_KEY, gemini_client, video_url, analysis, exc, status,
          rendered, runs, ctorCalls, calls, prevAnalysis, prevExc>>

(***************************************************************************)
(* Bounds                                                                  *)
(***************************************************************************)
MaxRuns == 3

(***************************************************************************)
(* Python values                                                           *)
(***************************************************************************)
None == [none |-> TRUE]

Some(v) == [none |-> FALSE, v |-> v]

Unbound == [unbound |-> TRUE]

Truthy(o) == ~o.none /\ o.v # ""

EmptyMap == [k \in {} |-> ""]

getenv(env, name) == IF name \in DOMAIN env THEN Some(env[name]) ELSE None

\* load_dotenv() copies the file's entries into the environment without
\* overriding variables that are already set.
load_dotenv(env, file) ==
    [k \in DOMAIN env \cup DOMAIN file |-> IF k \in DOMAIN env THEN env[k] ELSE file[k]]

\* str.startswith with a tuple of prefixes
startswith(s, prefixes) ==
    \E p \in prefixes : Len(s) >= Len(p) /\ SubSeq(s, 1, Len(p)) = p

\* a looser test: any text starting with "http"
UrlPrefixes_AnyHttp == {"http"}

UrlPrefixes == {"http://", "https://"}

Digit(d) == SubSeq("0123456789", d + 1, d + 1)

RECURSIVE NatToStr(_)
NatToStr(n) == IF n < 10 THEN Digit(n) ELSE NatToStr(n \div 10) \o Digit(n % 10)

\* str(int), as the f-string of line 94 formats the score
IntToStr(n) == IF n < 0 THEN "-" \o NatToStr(-n) ELSE NatToStr(n)

(***************************************************************************)
(* Exception classes and the built-in hierarchy the except clauses test    *)
(***************************************************************************)
Base(cls) ==
    CASE cls = "ConnectionResetError" -> "ConnectionError"
      [] cls = "ConnectionError"      -> "OSError"
      [] cls = "TimeoutError"         -> "OSError"
      [] cls = "OSError"              -> "Exception"
      [] cls = "ValueError"           -> "Exception"
      [] cls = "RuntimeError"         -> "Exception"
      [] cls = "AttributeError"       -> "Exception"
      [] cls = "NameError"            -> "Exception"
      [] OTHER                        -> "BaseException"

RECURSIVE isinstance(_, _)
isinstance(cls, base) ==
    \/ cls = base
    \/ cls # "BaseException" /\ isinstance(Base(cls), base)

Raise(cls, msg) == [cls |-> cls, msg |-> msg]

(***************************************************************************)
(* Inputs: what the user types and what the pipeline and the client        *)
(* constructor may do                                                      *)
(***************************************************************************)
Inputs == {"", "abc", "http:/", "HTTP://a", "ftp://a", "http://a", "https://b"}

KeyValues == {"", "k"}

PipelineRaisable ==
    {"ConnectionError", "ConnectionResetError", "ValueError", "TimeoutError", "RuntimeError"}

Messages == {"m1", "m2"}

Attributes == {"clarity_score", "communication_focus", "transcript"}

FullResults ==
    { [clarity_score |-> 87,  communication_focus |-> "Active Listening", transcript |-> "Hello world"],
      [clarity_score |-> 5,   communication_focus |-> "Pace",             transcript |-> "Bye"] }

\* The annotation of line 79 is not enforced: the object the pipeline returns
\* may lack any of the attributes the rendering code reads.
Restrict(r, A) == [a \in A |-> r[a]]

PipelineReturnable == { Restrict(r, A) : r \in FullResults, A \in SUBSET Attributes }

hasattr(obj, a) == a \in DOMAIN obj

(***************************************************************************)
(* The page: every st.* call appends one element                           *)
(***************************************************************************)
NoStatus == [absent |-> TRUE]

NoExc == [raised |-> FALSE]

EmptyCache == [empty |-> TRUE]

Render(page, el) == Append(page, el)

Shown(w) == \E i \in 1..Len(rendered) : rendered[i].w = w

FormShown == Shown("text_input") /\ Shown("button")

\* the score without the percent sign
MetricValue_NoPercent(a) == IntToStr(a.clarity_score)

\* line 94
MetricValue(a) == IntToStr(a.clarity_score) \o "%"

\* line 99
InfoBody(a) == "**Communication Focus:** " \o a.communication_focus

\* the transcript of an earlier result kept and shown again
CodeBody_Stale(a) ==
    IF hasattr(prevAnalysis, "transcript") THEN prevAnalysis.transcript ELSE a.transcript

\* line 103
CodeBody(a) == a.transcript

\* get_gemini_client without the cache decorator
CacheHit_Never == FALSE

\* @st.cache_resource: the decorated function body runs only on a cache miss
CacheHit == cache # EmptyCache

\* the guard testing the presence of the key instead of its value
ClientReady_KeyPresent == "client_ready" \in DOMAIN session_state

\* line 47: not st.session_state.get('client_ready')
ClientReady ==
    "client_ready" \in DOMAIN session_state /\ session_state["client_ready"]

\* the condition without the test of the text
ButtonCondition_NoText == clicked

\* the condition without the test of the button
ButtonCondition_NoClick == video_url # ""

\* line 60: st.button(...) and video_url
ButtonCondition == clicked /\ video_url # ""

\* the clause for Exception placed first
ExceptClause_GenericFirst(e) ==
    IF isinstance(e.cls, "Exception") THEN "generic"
    ELSE IF isinstance(e.cls, "ConnectionError") THEN "api"
    ELSE IF isinstance(e.cls, "ValueError") THEN "processing"
    ELSE "uncaught"

\* the clause for Exception left out
ExceptClause_NoGeneric(e) ==
    IF isinstance(e.cls, "ConnectionError") THEN "api"
    ELSE IF isinstance(e.cls, "ValueError") THEN "processing"
    ELSE "uncaught"

\* lines 105-113: the first except clause whose class matches
ExceptClause(e) ==
    IF isinstance(e.cls, "ConnectionError") THEN "api"
    ELSE IF isinstance(e.cls, "ValueError") THEN "processing"
    ELSE IF isinstance(e.cls, "Exception") THEN "generic"
    ELSE "uncaught"

(***************************************************************************)
(* Initial state: a fresh process, no script run yet                       *)
(***************************************************************************)
Init ==
    /\ environ \in {EmptyMap} \cup { [k \in {"GEMINI_API_KEY"} |-> v] : v \in KeyValues }
    /\ dotenv \in {EmptyMap, [k \in {"GEMINI_API_KEY"} |-> "k"]}
    /\ cache = EmptyCache
    /\ session_state = EmptyMap
    /\ textValue = ""
    /\ clicked = FALSE
    /\ pc = "idle"
    /\ ended = "none"
    /\ GEMINI_API_KEY = Unbound
    /\ gemini_client = Unbound
    /\ video_url = Unbound
    /\ analysis = Unbound
    /\ exc = NoExc
    /\ status = NoStatus
    /\ rendered = <<>>
    /\ runs = 0
    /\ ctorCalls = 0
    /\ calls = <<>>
    /\ prevAnalysis = Unbound
    /\ prevExc = NoExc

(***************************************************************************)
(* Browser events: each starts one script run on an empty page with fresh  *)
(* script globals                                                          *)
(***************************************************************************)
StartScript ==
    /\ pc = "idle"
    /\ runs < MaxRuns
    /\ runs' = runs + 1
    /\ pc' = "L10"
    /\ ended' = "running"
    /\ rendered' = <<>>
    /\ status' = NoStatus
    /\ GEMINI_API_KEY' = Unbound
    /\ gemini_client' = Unbound
    /\ video_url' = Unbound
    /\ analysis' = Unbound
    /\ exc' = NoExc
    /\ prevAnalysis' = IF analysis # Unbound THEN analysis ELSE prevAnalysis
    /\ prevExc' = IF exc # NoExc THEN exc ELSE prevExc
    /\ UNCHANGED <<environ, dotenv, cache, ctorCalls, calls>>

\* the browser opens or reloads the page: a new session
PageLoad ==
    /\ StartScript
    /\ session_state' = EmptyMap
    /\ textValue' = ""
    /\ clicked' = FALSE

\* the user commits a new text in the URL field
EditText(s) ==
    /\ FormShown
    /\ s # textValue
    /\ StartScript
    /\ textValue' = s
    /\ clicked' = FALSE
    /\ UNCHANGED session_state

\* the user clicks the button, the field holding s
ClickButton(s) ==
    /\ FormShown
    /\ StartScript
    /\ textValue' = s
    /\ clicked' = TRUE
    /\ UNCHANGED session_state

(***************************************************************************)
(* The script, statement by statement                                      *)
(***************************************************************************)
scriptGlobals == <<GEMINI_API_KEY, gemini_client, video_url, analysis>>

browser == <<textValue, clicked>>

history == <<runs, prevAnalysis, prevExc>>

\* lines 10-11
LoadEnv ==
    /\ pc = "L10"
    /\ environ' = load_dotenv(environ, dotenv)
    /\ GEMINI_API_KEY' = getenv(environ', "GEMINI_API_KEY")
    /\ pc' = "L14"
    /\ UNCHANGED <<dotenv, cache, session_state, browser, ended, gemini_client,
                   video_url, analysis, exc, status, rendered, history, ctorCalls, calls>>

\* lines 14-28, the credential is missing or empty
InitNoKey ==
    /\ pc = "L14"
    /\ ~Truthy(GEMINI_API_KEY)
    /\ session_state' = [k \in DOMAIN session_state \cup {"client_ready"} |-> FALSE]
    /\ pc' = "L32"
    /\ UNCHANGED <<environ, dotenv, cache, browser, ended, scriptGlobals, exc,
                   status, rendered, history, ctorCalls, calls>>

\* lines 14-23, get_gemini_client() served from the cache
InitCached ==
    /\ pc = "L14"
    /\ Truthy(GEMINI_API_KEY)
    /\ CacheHit
    /\ gemini_client' = cache
    /\ session_state' = [k \in DOMAIN session_state \cup {"client_ready"} |-> TRUE]
    /\ pc' = "L32"
    /\ UNCHANGED <<environ, dotenv, cache, browser, ended, GEMINI_API_KEY, video_url,
                   analysis, exc, status, rendered, history, ctorCalls, calls>>

\* lines 14-23, get_gemini_client() runs genai.Client(...) and it returns
InitConstruct ==
    /\ pc = "L14"
    /\ Truthy(GEMINI_API_KEY)
    /\ ~CacheHit
    /\ ctorCalls' = ctorCalls + 1
    /\ cache' = [id |-> ctorCalls', api_key |-> GEMINI_API_KEY.v]
    /\ gemini_client' = cache'
    /\ session_state' = [k \in DOMAIN session_state \cup {"client_ready"} |-> TRUE]
    /\ pc' = "L32"
    /\ UNCHANGED <<environ, dotenv, browser, ended, GEMINI_API_KEY, video_url,
                   analysis, exc, status, rendered, history, calls>>

\* lines 14-26, genai.Client(...) raises: nothing is cached
InitFails(msg) ==
    /\ pc = "L14"
    /\ Truthy(GEMINI_API_KEY)
    /\ ~CacheHit
    /\ ctorCalls' = ctorCalls + 1
    /\ rendered' = Render(rendered, [w |-> "error", body |-> "Failed to initialize Gemini Client: " \o msg])
    /\ session_state' = [k \in DOMAIN session_state \cup {"client_ready"} |-> FALSE]
    /\ pc' = "L32"
    /\ UNCHANGED <<environ, dotenv, cache, browser, ended, scriptGlobals, exc,
                   status, history, calls>>

\* lines 32-44
PageHeader ==
    /\ pc = "L32"
    /\ rendered' = Render(Render(rendered, [w |-> "title"]), [w |-> "description"])
    /\ pc' = "L47"
    /\ UNCHANGED <<environ, dotenv, cache, session_state, browser, ended, scriptGlobals,
                   exc, status, history, ctorCalls, calls>>

\* lines 47-49, the client is not ready: warning and st.stop()
KeyGuardStops ==
    /\ pc = "L47"
    /\ ~ClientReady
    /\ rendered' = Render(rendered, [w |-> "warning", body |-> "API Key Missing!"])
    /\ pc' = "idle"
    /\ ended' = "stopped"
    /\ UNCHANGED <<environ, dotenv, cache, session_state, browser, scriptGlobals,
                   exc, status, history, ctorCalls, calls>>

\* line 47, the client is ready
KeyGuardPasses ==
    /\ pc = "L47"
    /\ ClientReady
    /\ pc' = "L53"
    /\ UNCHANGED <<environ, dotenv, cache, session_state, browser, ended, scriptGlobals,
                   exc, status, rendered, history, ctorCalls, calls>>

\* lines 53-57
TextInput ==
    /\ pc = "L53"
    /\ rendered' = Render(rendered, [w |-> "text_input", value |-> textValue])
    /\ video_url' = textValue
    /\ pc' = "L60"
    /\ UNCHANGED <<environ, dotenv, cache, session_state, browser, ended, GEMINI_API_KEY,
                   gemini_client, analysis, exc, status, history, ctorCalls, calls>>

\* line 60
Button ==
    /\ pc = "L60"
    /\ rendered' = Render(rendered, [w |-> "button"])
    /\ pc' = IF ButtonCondition THEN "L63" ELSE "L116"
    /\ UNCHANGED <<environ, dotenv, cache, session_state, browser, ended, scriptGlobals,
                   exc, status, history, ctorCalls, calls>>

\* lines 63-65, the URL lacks the scheme prefix: error and st.stop()
ValidateRejects ==
    /\ pc = "L63"
    /\ ~startswith(video_url, UrlPrefixes)
    /\ rendered' = Render(rendered, [w |-> "error", body |-> "Please enter a valid URL starting with http:// or https://"])
    /\ pc' = "idle"
    /\ ended' = "stopped"
    /\ UNCHANGED <<environ, dotenv, cache, session_state, browser, scriptGlobals,
                   exc, status, history, ctorCalls, calls>>

\* line 63, the URL has the scheme prefix
ValidateAccepts ==
    /\ pc = "L63"
    /\ startswith(video_url, UrlPrefixes)
    /\ pc' = "L69"
    /\ UNCHANGED <<environ, dotenv, cache, session_state, browser, ended, scriptGlobals,
                   exc, status, rendered, history, ctorCalls, calls>>

\* lines 69-76: the status container opens, expanded, with three progress lines
OpenStatus ==
    /\ pc = "L69"
    /\ status' = [label |-> "Analyzing Video...", state |-> "running", expanded |-> TRUE,
                  writes |-> <<"Starting video analysis pipeline...",
                               "Extracting and preparing audio from URL...",
                               "Sending audio to Gemini for transcription and LLM analysis...">>]
    /\ pc' = "L79"
    /\ UNCHANGED <<environ, dotenv, cache, session_state, browser, ended, scriptGlobals,
                   exc, rendered, history, ctorCalls, calls>>

\* lines 79-82: the arguments are evaluated and process_video_insights is entered;
\* reading an unbound gemini_client raises NameError before the call
CallPipeline ==
    /\ pc = "L79"
    /\ IF gemini_client = Unbound
       THEN /\ exc' = Raise("NameError", "gemini_client")
            /\ pc' = "except"
            /\ UNCHANGED calls
       ELSE /\ calls' = Append(calls, [video_url |-> video_url, client |-> gemini_client, run |-> runs])
            /\ pc' = "blocked"
            /\ UNCHANGED exc
    /\ UNCHANGED <<environ, dotenv, cache, session_state, browser, ended, scriptGlobals,
                   status, rendered, history, ctorCalls>>

\* line 79: process_video_insights returns an object, bound to analysis
PipelineReturns(r) ==
    /\ pc = "blocked"
    /\ analysis' = r
    /\ pc' = "L84"
    /\ UNCHANGED <<environ, dotenv, cache, session_state, browser, ended, GEMINI_API_KEY,
                   gemini_client, video_url, exc, status, rendered, history, ctorCalls, calls>>

\* line 79: process_video_insights raises
PipelineRaises(cls, msg) ==
    /\ pc = "blocked"
    /\ exc' = Raise(cls, msg)
    /\ pc' = "except"
    /\ UNCHANGED <<environ, dotenv, cache, session_state, browser, ended, scriptGlobals,
                   status, rendered, history, ctorCalls, calls>>

\* lines 84-85
StatusComplete ==
    /\ pc = "L84"
    /\ status' = [label |-> "Analysis Complete!", state |-> "complete", expanded |-> FALSE,
                  writes |-> Append(status.writes, "Analysis complete. Structuring results.")]
    /\ pc' = "L89"
    /\ UNCHANGED <<environ, dotenv, cache, session_state, browser, ended, scriptGlobals,
                   exc, rendered, history, ctorCalls, calls>>

\* line 89
Subheader ==
    /\ pc = "L89"
    /\ rendered' = Render(rendered, [w |-> "subheader", body |-> "Analysis Results"])
    /\ pc' = "L92"
    /\ UNCHANGED <<environ, dotenv, cache, session_state, browser, ended, scriptGlobals,
                   exc, status, history, ctorCalls, calls>>

\* lines 92-96
Metric ==
    /\ pc = "L92"
    /\ hasattr(analysis, "clarity_score")
    /\ rendered' = Render(rendered, [w |-> "metric", label |-> "Clarity Score", value |-> MetricValue(analysis)])
    /\ pc' = "L99"
    /\ UNCHANGED <<environ, dotenv, cache, session_state, browser, ended, scriptGlobals,
                   exc, status, history, ctorCalls, calls>>

\* line 94: analysis has no clarity_score
MetricRaises ==
    /\ pc = "L92"
    /\ ~hasattr(analysis, "clarity_score")
    /\ exc' = Raise("AttributeError", "clarity_score")
    /\ pc' = "except"
    /\ UNCHANGED <<environ, dotenv, cache, session_state, browser, ended, scriptGlobals,
                   status, rendered, history, ctorCalls, calls>>

\* line 99
Info ==
    /\ pc = "L99"
    /\ hasattr(analysis, "communication_focus")
    /\ rendered' = Render(rendered, [w |-> "info", body |-> InfoBody(analysis)])
    /\ pc' = "L102"
    /\ UNCHANGED <<environ, dotenv, cache, session_state, browser, ended, scriptGlobals,
                   exc, status, history, ctorCalls, calls>>

\* line 99: analysis has no communication_focus
InfoRaises ==
    /\ pc = "L99"
    /\ ~hasattr(analysis, "communication_focus")
    /\ exc' = Raise("AttributeError", "communication_focus")
    /\ pc' = "except"
    /\ UNCHANGED <<environ, dotenv, cache, session_state, browser, ended, scriptGlobals,
                   status, rendered, history, ctorCalls, calls>>

\* lines 102-103: the expander is created collapsed, then the code block inside it
Expander ==
    /\ pc = "L102"
    /\ hasattr(analysis, "transcript")
    /\ rendered' = Render(Render(rendered,
                       [w |-> "expander", label |-> "View Full Transcript", expanded |-> FALSE]),
                       [w |-> "code", parent |-> "expander", body |-> CodeBody(analysis), language |-> "text"])
    /\ pc' = "L116"
    /\ UNCHANGED <<environ, dotenv, cache, session_state, browser, ended, scriptGlobals,
                   exc, status, history, ctorCalls, calls>>

\* lines 102-103: the expander is created, then analysis has no transcript
ExpanderRaises ==
    /\ pc = "L102"
    /\ ~hasattr(analysis, "transcript")
    /\ rendered' = Render(rendered,
                       [w |-> "expander", label |-> "View Full Transcript", expanded |-> FALSE])
    /\ exc' = Raise("AttributeError", "transcript")
    /\ pc' = "except"
    /\ UNCHANGED <<environ, dotenv, cache, session_state, browser, ended, scriptGlobals,
                   status, history, ctorCalls, calls>>

\* lines 105-113: the matching except clause renders its messages; an exception
\* no clause matches leaves the script
ExceptHandlers ==
    /\ pc = "except"
    /\ LET clause == ExceptClause(exc) IN
       /\ rendered' =
            CASE clause = "api" ->
                   Render(Render(rendered,
                       [w |-> "error", body |-> "**API Error:** " \o exc.msg]),
                       [w |-> "markdown", body |-> "Please verify your Gemini API key is correct and ensure network connectivity."])
              [] clause = "processing" ->
                   Render(Render(rendered,
                       [w |-> "error", body |-> "**Processing Error:** " \o exc.msg]),
                       [w |-> "markdown", body |-> "This usually means `yt-dlp` couldn't process the video URL. Ensure the link is public and accessible."])
              [] clause = "generic" ->
                   Render(Render(rendered,
                       [w |-> "exception", cls |-> exc.cls, msg |-> exc.msg]),
                       [w |-> "error", body |-> "An unexpected error occurred during processing: " \o exc.msg])
              [] OTHER -> rendered
       /\ pc' = IF clause = "uncaught" THEN "idle" ELSE "L116"
       /\ ended' = IF clause = "uncaught" THEN "uncaught" ELSE ended
    /\ UNCHANGED <<environ, dotenv, cache, session_state, browser, scriptGlobals,
                   exc, status, history, ctorCalls, calls>>

\* lines 116-117
Footer ==
    /\ pc = "L116"
    /\ rendered' = Render(Render(rendered, [w |-> "divider"]), [w |-> "caption"])
    /\ pc' = "idle"
    /\ ended' = "completed"
    /\ UNCHANGED <<environ, dotenv, cache, session_state, browser, scriptGlobals,
                   exc, status, history, ctorCalls, calls>>

Next ==
    \/ PageLoad
    \/ \E s \in Inputs : EditText(s)
    \/ \E s \in Inputs : ClickButton(s)
    \/ LoadEnv
    \/ InitNoKey
    \/ InitCached
    \/ InitConstruct
    \/ \E msg \in Messages : InitFails(msg)
    \/ PageHeader
    \/ KeyGuardStops
    \/ KeyGuardPasses
    \/ TextInput
    \/ Button
    \/ ValidateRejects
    \/ ValidateAccepts
    \/ OpenStatus
    \/ CallPipeline
    \/ \E r \in PipelineReturnable : PipelineReturns(r)
    \/ \E cls \in PipelineRaisable, msg \in Messages : PipelineRaises(cls, msg)
    \/ StatusComplete
    \/ Subheader
    \/ Metric
    \/ MetricRaises
    \/ Info
    \/ InfoRaises
    \/ Expander
    \/ ExpanderRaises
    \/ ExceptHandlers
    \/ Footer

Spec == Init /\ [][Next]_vars

(***************************************************************************)
(* Vocabulary of the properties                                            *)
(***************************************************************************)
HasScheme(s) ==
    \/ Len(s) >= 7 /\ SubSeq(s, 1, 7) = "http://"
    \/ Len(s) >= 8 /\ SubSeq(s, 1, 8) = "https://"

CallsOfRun(n) == { i \in 1..Len(calls) : calls[i].run = n }

RunEnded == pc = "idle" /\ runs > 0

KeyAbsent ==
    LET k == getenv(load_dotenv(environ, dotenv), "GEMINI_API_KEY") IN k.none \/ k.v = ""

ReadyInSession ==
    "client_ready" \in DOMAIN session_state /\ session_state["client_ready"] = TRUE

ValidationError ==
    [w |-> "error", body |-> "Please enter a valid URL starting with http:// or https://"]

Has(el) == \E i \in 1..Len(rendered) : rendered[i] = el

IsMessage(el) == el.w \in {"error", "markdown", "exception", "warning"}

IsResult(el) == el.w \in {"subheader", "metric", "info", "expander", "code"}

MessagesShown == SelectSeq(rendered, IsMessage)

ResultsShown == SelectSeq(rendered, IsResult)

PipelineFailed == exc # NoExc /\ analysis = Unbound /\ CallsOfRun(runs) # {}

HandlerDone == pc \in {"L116", "idle"}

IsFull(a) == DOMAIN a = Attributes

(***************************************************************************)
(* C1: whatever the sequence of events, a script run whose input does not  *)
(* start with "http://" or "https://" (the empty input included) never     *)
(* invokes process_video_insights.                                         *)
(***************************************************************************)
C1_NoCallWithoutScheme ==
    runs > 0 /\ ~HasScheme(textValue) => CallsOfRun(runs) = {}

C1_Witness ==
    /\ RunEnded /\ clicked /\ ReadyInSession
    /\ textValue = "ftp://a"
    /\ Len(calls) >= 1
    /\ CallsOfRun(runs) = {}

(***************************************************************************)
(* C2: when the credential is absent (unset or empty after load_dotenv),   *)
(* no script run renders the URL input or the button, none invokes the     *)
(* pipeline, and a finished run shows the title, the description and the   *)
(* warning and nothing else, having stopped before the footer.             *)
(***************************************************************************)
C2_NoFormWithoutKey ==
    KeyAbsent =>
        /\ ~Shown("text_input") /\ ~Shown("button")
        /\ calls = <<>>
        /\ ctorCalls = 0
        /\ RunEnded =>
             /\ ended = "stopped"
             /\ rendered = <<[w |-> "title"], [w |-> "description"],
                             [w |-> "warning", body |-> "API Key Missing!"]>>

C2_Witness ==
    KeyAbsent /\ RunEnded /\ runs >= 2 /\ Shown("warning") /\ "GEMINI_API_KEY" \in DOMAIN environ

(***************************************************************************)
(* C3 as stated: a click with a ready client and an input without the      *)
(* scheme prefix, the empty input included, renders the validation error   *)
(* and stops the script run.                                               *)
(***************************************************************************)
C3_Original ==
    RunEnded /\ clicked /\ ReadyInSession /\ ~HasScheme(textValue) =>
        Has(ValidationError) /\ ended = "stopped"

(***************************************************************************)
(* C3 amended: a click with a ready client and a non-empty input without   *)
(* the scheme prefix renders the validation error and stops the script     *)
(* run before the footer; a click with the empty input renders no message  *)
(* at all and the script run completes with the footer.                    *)
(***************************************************************************)
C3_RejectsNonEmpty ==
    RunEnded /\ clicked /\ ReadyInSession /\ ~HasScheme(textValue) =>
        IF textValue # ""
        THEN /\ MessagesShown = <<ValidationError>>
             /\ ended = "stopped"
             /\ ~Shown("caption")
        ELSE /\ MessagesShown = <<>>
             /\ ended = "completed"
             /\ Shown("caption")

C3_Witness ==
    RunEnded /\ clicked /\ ReadyInSession /\ textValue = "HTTP://a" /\ Has(ValidationError)

(***************************************************************************)
(* C4: when process_video_insights raises ConnectionError (or a subclass)  *)
(* the handler renders the "API Error" message and the connectivity hint   *)
(* and no other message; when it raises ValueError it renders the          *)
(* "Processing Error" message and the public-link hint and no other.       *)
(***************************************************************************)
C4_ClassifiedPaths ==
    HandlerDone /\ PipelineFailed =>
        /\ exc.cls \in {"ConnectionError", "ConnectionResetError"} =>
             MessagesShown =
               <<[w |-> "error", body |-> "**API Error:** " \o exc.msg],
                 [w |-> "markdown", body |-> "Please verify your Gemini API key is correct and ensure network connectivity."]>>
        /\ exc.cls = "ValueError" =>
             MessagesShown =
               <<[w |-> "error", body |-> "**Processing Error:** " \o exc.msg],
                 [w |-> "markdown", body |-> "This usually means `yt-dlp` couldn't process the video URL. Ensure the link is public and accessible."]>>

C4_Witness ==
    RunEnded /\ PipelineFailed /\ exc.cls = "ValueError" /\ Len(MessagesShown) = 2

(***************************************************************************)
(* C5: an exception raised in the try block that is neither a              *)
(* ConnectionError nor a ValueError is rendered as the exception detail    *)
(* followed by the generic unexpected-error message; no exception leaves   *)
(* the script, which goes on to render the footer.                         *)
(***************************************************************************)
C5_GenericPath ==
    /\ ended # "uncaught"
    /\ exc # NoExc /\ HandlerDone
         /\ exc.cls \notin {"ConnectionError", "ConnectionResetError", "ValueError"} =>
           MessagesShown =
             <<[w |-> "exception", cls |-> exc.cls, msg |-> exc.msg],
               [w |-> "error", body |-> "An unexpected error occurred during processing: " \o exc.msg]>>
    /\ exc # NoExc /\ RunEnded => ended = "completed" /\ Shown("caption")

C5_Witness ==
    RunEnded /\ PipelineFailed /\ exc.cls = "TimeoutError" /\ Shown("exception") /\ Shown("caption")

(***************************************************************************)
(* C6: in a script run in which the try block raised, whether in the       *)
(* pipeline call or while rendering its result, none of the results        *)
(* header, the metric, the callout or the transcript block is on the page. *)
(***************************************************************************)
C6_NoPartialResults ==
    exc # NoExc => ResultsShown = <<>>

(***************************************************************************)
(* C7: a script run invokes process_video_insights at most once, only on   *)
(* a click, with the input of that run as URL and the cached client as     *)
(* handle; a finished run with a click, a ready client and an input with   *)
(* the scheme prefix has invoked it exactly once; while the call is        *)
(* outstanding nothing of its outcome has been set or rendered; a failed   *)
(* run never invokes it a second time.                                     *)
(***************************************************************************)
C7_OneCallPerClick ==
    /\ \A n \in 1..runs : Cardinality(CallsOfRun(n)) <= 1
    /\ \A i \in CallsOfRun(runs) :
         /\ clicked
         /\ calls[i].video_url = textValue
         /\ calls[i].client = cache
         /\ cache # EmptyCache
    /\ RunEnded /\ clicked /\ ReadyInSession /\ HasScheme(textValue) =>
         Cardinality(CallsOfRun(runs)) = 1
    /\ pc = "blocked" =>
         /\ CallsOfRun(runs) # {}
         /\ analysis = Unbound /\ exc = NoExc
         /\ ResultsShown = <<>> /\ MessagesShown = <<>>
         /\ status.state = "running"

C7_Witness ==
    /\ RunEnded /\ PipelineFailed /\ clicked
    /\ prevExc # NoExc
    /\ Len(calls) = 2
    /\ calls[1].video_url = calls[2].video_url

(***************************************************************************)
(* C8: everything a script run renders of a result or of an error comes    *)
(* from that run's own pipeline call: the metric, the callout and the      *)
(* transcript are those of the object bound to analysis in this run, the   *)
(* error texts carry this run's exception, and a run without a returned    *)
(* object shows no result element.                                         *)
(***************************************************************************)
C8_NoResidue ==
    /\ analysis # Unbound => CallsOfRun(runs) # {}
    /\ analysis = Unbound => ResultsShown = <<>>
    /\ \A i \in 1..Len(rendered) :
         LET el == rendered[i] IN
         /\ el.w = "metric" =>
              /\ hasattr(analysis, "clarity_score")
              /\ el.value = IntToStr(analysis.clarity_score) \o "%"
         /\ el.w = "info" =>
              /\ hasattr(analysis, "communication_focus")
              /\ el.body = "**Communication Focus:** " \o analysis.communication_focus
         /\ el.w = "code" =>
              /\ hasattr(analysis, "transcript")
              /\ el.body = analysis.transcript
         /\ el.w = "exception" => exc # NoExc /\ el.msg = exc.msg /\ el.cls = exc.cls
         /\ el.w = "error" =>
              \/ el = ValidationError /\ exc = NoExc /\ analysis = Unbound
              \/ /\ exc = NoExc /\ analysis = Unbound
                 /\ el.body \in { "Failed to initialize Gemini Client: " \o m : m \in Messages }
              \/ /\ exc # NoExc
                 /\ el.body \in { "**API Error:** " \o exc.msg,
                                  "**Processing Error:** " \o exc.msg,
                                  "An unexpected error occurred during processing: " \o exc.msg }

C8_Witness ==
    /\ RunEnded
    /\ IsFull(prevAnalysis) /\ IsFull(analysis)
    /\ prevAnalysis.transcript # analysis.transcript
    /\ calls[Len(calls) - 1].video_url # calls[Len(calls)].video_url
    /\ Shown("code")

(***************************************************************************)
(* C9 as stated: the constructor behind get_gemini_client runs at most     *)
(* once in the process.                                                    *)
(***************************************************************************)
C9_Original == ctorCalls <= 1

(***************************************************************************)
(* C9 amended: the constructor returns a client at most once in the        *)
(* process: once a client is cached the constructor never runs again and   *)
(* the cached handle is never replaced or changed, and every pipeline      *)
(* invocation receives that handle.  A constructor call that raises caches *)
(* nothing, so the constructor runs again in the next script run.          *)
(***************************************************************************)
C9_SingleClient ==
    /\ [](/\ gemini_client \in {Unbound, cache}
          /\ \A i \in 1..Len(calls) : calls[i].client = cache /\ cache # EmptyCache)
    /\ [][cache # EmptyCache => cache' = cache /\ ctorCalls' = ctorCalls]_vars

C9_Witness ==
    /\ runs >= 3
    /\ Len(calls) >= 2
    /\ calls[1].run # calls[2].run
    /\ cache # EmptyCache

(***************************************************************************)
(* C10: a script run whose pipeline call returned a result with its three  *)
(* fields renders, after the results header, the score followed by "%" as  *)
(* the metric (87 as "87%"), the focus text in the callout, and the        *)
(* transcript in a code block inside a collapsed expander, and marks the   *)
(* status complete.                                                        *)
(***************************************************************************)
C10_RendersResult ==
    RunEnded /\ IsFull(analysis) =>
        /\ exc = NoExc
        /\ ended = "completed"
        /\ ResultsShown =
             <<[w |-> "subheader", body |-> "Analysis Results"],
               [w |-> "metric", label |-> "Clarity Score",
                value |-> IntToStr(analysis.clarity_score) \o "%"],
               [w |-> "info", body |-> "**Communication Focus:** " \o analysis.communication_focus],
               [w |-> "expander", label |-> "View Full Transcript", expanded |-> FALSE],
               [w |-> "code", parent |-> "expander", body |-> analysis.transcript, language |-> "text"]>>
        /\ analysis.clarity_score = 87 => ResultsShown[2].value = "87%"
        /\ MessagesShown = <<>>
        /\ status.state = "complete" /\ status.label = "Analysis Complete!"
        /\ ~status.expanded

C10_Witness ==
    /\ RunEnded /\ IsFull(analysis)
    /\ analysis.clarity_score = 87
    /\ Has([w |-> "metric", label |-> "Clarity Score", value |-> "87%"])
    /\ Has([w |-> "info", body |-> "**Communication Focus:** Active Listening"])
    /\ Has([w |-> "code", parent |-> "expander", body |-> "Hello world", language |-> "text"])

====
